---- MODULE Spec2Model ----
(***************************************************************************)
(* Model of redfish-firmware-update-tool (src/main.py): main() runs        *)
(* push_firmware() (with select_multipart_target()) and then               *)
(* track_update_status(), whose polling loop runs beside the refresh_pbar  *)
(* thread.  The BMC, the file system and the operator are the environment: *)
(* every HTTP answer, file-system result and input line is drawn from a    *)
(* small set.  An optional Python value (None or v) is the sequence <<>>   *)
(* or <<v>>.                                                               *)
(***************************************************************************)
EXTENDS Integers, Sequences, FiniteSets, TLC

\* ---------------------------------------------------------------- bounds
MaxMembers == 2        \* members of the firmware inventory offered
MaxTokens == 2         \* tokens in one line typed at the prompt
MaxMsgs == 2           \* entries of a task's Messages list
GetsCap == 3           \* the task-URL request count saturates here
MaxFileSize == 2       \* bytes of the firmware file
ReadChunk == 2         \* bytes one read of the request body hands over

\* ------------------------------------------------------ program constants
MaxDuration == 600     \* delta_time.seconds > 600
PollSleep == 5         \* time.sleep(5)
SettleSleep == 1       \* time.sleep(1)
SecondsPerDay == 86400 \* timedelta.seconds is the seconds within the day

Opt(S) == {<<>>} \cup {<<x>> : x \in S}
SeqsUpTo(S, n) == UNION {[1..k -> S] : k \in 0..n}
Min(a, b) == IF a < b THEN a ELSE b

\* ------------------------------------------------------------ environment
TaskIds == {"", "42"}
StatusCodes == {200, 404}
TaskStates == {"Pending", "Running", "Completed", "Exception"}
TaskStatuses == {"OK", "Critical"}
Percents == {30, 70}
HttpOperations == {"POST", "PATCH"}
\* A URI is the sequence of the segments of its path.
TargetUris ==
  { <<"redfish", "v1", "UpdateService">>,
    <<"redfish", "v1", "Managers", "bmc">> }
MessagePool ==
  { [Severity |-> "Critical", Message |-> "c1"],
    [Severity |-> "Critical", Message |-> "c2"],
    [Severity |-> "Warning", Message |-> "w1"] }
MessageLists == SeqsUpTo(MessagePool, MaxMsgs)

\* What get_from_url hands back: no response at all ("none", the transport
\* raised and the function printed the error), a response whose body is not
\* JSON ("notjson": response.json() raises again when the caller decodes it),
\* a body that is the JSON value null ("null"), or a JSON object ("obj").
ResponseKinds == {"none", "notjson", "null", "obj"}

\* str(payload.get("TargetUri")).find("UpdateService") != -1; the text of an
\* absent TargetUri is "None".
MentionsUpdateService(uri) ==
  /\ uri # <<>>
  /\ \E i \in 1..Len(uri[1]) : uri[1][i] = "UpdateService"

Payloads == [HttpOperation : Opt(HttpOperations), TargetUri : Opt(TargetUris)]

\* The members of a task resource that track_update_status reads on a fetch.
Snapshots ==
  [ TaskState : TaskStates, TaskStatus : TaskStatuses,
    PercentComplete : Opt(Percents), EndTime : Opt({"ts"}) ]

\* A GET of the task URL as track_update_status sees it: the kind of response
\* and, for a JSON object, its Payload member and the members read from it.
NoPayload == <<>>
NoSnapshot ==
  [TaskState |-> "unset", TaskStatus |-> "unset", PercentComplete |-> <<>>,
   EndTime |-> <<>>]
FailedFetches ==
  [kind : ResponseKinds \ {"obj"}, payload : {NoPayload}, body : {NoSnapshot}]
FirstFetches ==
  FailedFetches \cup [kind : {"obj"}, payload : Opt(Payloads), body : Snapshots]
PollFetches ==
  FailedFetches \cup [kind : {"obj"}, payload : {NoPayload}, body : Snapshots]

\* --------------------------------------------------------- operator input
\* A token of an input line: text that int() parses (num) to val, or not.
Tokens == [num : {TRUE}, val : (0 - 1)..(MaxMembers + 1)]
            \cup {[num |-> FALSE, val |-> 0]}
\* A line typed at the prompt, as selection.split() sees it; exact says that
\* the line holds nothing but its tokens separated by single spaces.
Lines == [tokens : SeqsUpTo(Tokens, MaxTokens), exact : BOOLEAN]
\* Mutant of IsZeroLine: an empty line ends the loop as well.
IsZeroOrEmptyLine(line) ==
  \/ line.tokens = <<>>
  \/ line.exact /\ line.tokens = <<[num |-> TRUE, val |-> 0]>>

\* Line 55: selection == "0".
IsZeroLine(line) ==
  /\ line.exact
  /\ line.tokens = <<[num |-> TRUE, val |-> 0]>>

\* The "@odata.id" of the i-th member of the inventory collection.
MemberId(i) == <<"/redfish/v1/UpdateService/FirmwareInventory", i>>

VARIABLES
  pc,               \* where the main thread is
  args,             \* parsed command line: file_path given?, task_id
  status,           \* main: status
  task_id,          \* main: task_id (None, or a string)
  raised,           \* the uncaught exception that ended the process, if any
  \* push_firmware
  multipart_uri,    \* MultipartHttpPushUri present?
  firmware_file,    \* "unopened", "open", "closed"
  members,          \* number of members offered by the inventory
  selection,        \* select_multipart_target: the line last read
  multipart_targets,\* select_multipart_target: the list being built
  prepared,         \* "none", "multipart": prepared_req before the with block
  upload_pbar,      \* "none", "active", "closed"
  sent,             \* the POST that was sent: "none", "simple", "multipart"
  send_result,      \* what Session.send and response.json() came to
  notice,           \* what push_firmware printed about its result
  probe,            \* the answer to the capability probe of line 110
  inventory_code,   \* status code of the firmware-inventory answer
  file_size,        \* file_size of line 115
  request,          \* prepared_req: its url, its targets and its body
  upload_total,     \* total of the upload progress bar
  upload_n,         \* bytes the upload progress bar has counted
  body_read,        \* bytes of the body the transport has read so far
  file_bytes,       \* size of the firmware file on disk
  \* track_update_status
  payload,          \* the Payload member of the first snapshot
  task_state, task_status, end_time,
  exception,        \* "none", "json", "timeout"
  response,         \* kind of the response last returned by get_from_url
  percentage,       \* PercentComplete of the snapshot read last
  pbar,             \* [state : "none"/"active"/"closed", n : percentage]
  elapsed,          \* seconds since start_time, while the polling loop runs:
                    \* time passes in time.sleep, a GET is taken to answer at
                    \* once, and the clock is not read after the loop
  outcome,          \* the branch track_update_status returned through
  shown_exception,  \* the exception printed by the Indeterminate branch
  shown_messages,   \* the Message texts printed by the Failed branch
  read_messages,    \* the Messages member decoded on line 276
  \* refresh_pbar thread
  thr,              \* "notstarted", "check", "sleeping", "done", "killed"
  \* observations
  serviceGets,      \* GETs push_firmware has issued
  taskGets,         \* GETs on the task URL (saturating at GetsCap)
  slept,            \* track_update_status has called time.sleep
  lateRefresh       \* refresh_pbar refreshed after the tracker returned

mainVars == <<args, status, task_id, raised>>
pushVars == <<multipart_uri, firmware_file, members, selection,
              multipart_targets,
              prepared, upload_pbar, sent, send_result, notice,
              serviceGets>>
trackVars == <<payload, task_state, task_status, end_time, exception, response,
               percentage, pbar,
               elapsed, outcome, shown_exception, shown_messages,
               read_messages, taskGets, slept>>
uploadVars == <<probe, inventory_code, file_size, request, upload_total,
                upload_n, body_read, file_bytes>>
thrVars == <<thr, lateRefresh>>
vars == <<pc, mainVars, pushVars, uploadVars, trackVars, thrVars>>


NoLine == [tokens |-> <<>>, exact |-> TRUE]

Init ==
  /\ pc = "main"
  /\ args \in {[file_path |-> TRUE, task_id |-> <<>>],
               [file_path |-> FALSE, task_id |-> <<"42">>]}
  /\ status = "unset"
  /\ task_id = <<>>
  /\ raised = "none"
  /\ multipart_uri = FALSE
  /\ firmware_file = "unopened"
  /\ members = 0
  /\ selection = NoLine
  /\ multipart_targets = <<>>
  /\ prepared = "none"
  /\ upload_pbar = "none"
  /\ sent = "none"
  /\ send_result = <<>>
  /\ notice = "none"
  /\ probe = <<>>
  /\ inventory_code = <<>>
  /\ file_size = 0
  /\ request = <<>>
  /\ upload_total = 0
  /\ upload_n = 0
  /\ body_read = 0
  /\ file_bytes = 0
  /\ payload = <<>>
  /\ task_state = "unset"
  /\ task_status = "unset"
  /\ end_time = <<>>
  /\ exception = "none"
  /\ response = "none"
  /\ percentage = <<>>
  /\ pbar = [state |-> "none", n |-> 0]
  /\ elapsed = 0
  /\ outcome = "none"
  /\ shown_exception = "none"
  /\ shown_messages = <<>>
  /\ read_messages = <<>>
  /\ thr = "notstarted"
  /\ serviceGets = 0
  /\ taskGets = 0
  /\ slept = FALSE
  /\ lateRefresh = FALSE

\* An exception nobody catches ends the process: the traceback is printed and
\* the daemon thread dies with the interpreter.  A with block the exception
\* passes through closes its progress bar on the way (tqdm.__exit__).
Crash(kind) ==
  /\ pc' = "crashed"
  /\ raised' = kind
  /\ thr' = IF thr \in {"check", "sleeping"} THEN "killed" ELSE thr
  /\ UNCHANGED lateRefresh

\* ------------------------------------------------------------------ main
\* main, lines 333-340 and 342: upload mode enters push_firmware, track-only
\* mode takes the task id of the command line.
MainStart ==
  /\ pc = "main"
  /\ IF args.file_path
       THEN /\ pc' = "push_probe"
            /\ UNCHANGED task_id
       ELSE /\ pc' = "track_first"
            /\ task_id' = args.task_id
  /\ UNCHANGED <<args, status, raised, pushVars, uploadVars, trackVars,
                 thrVars>>

\* main, lines 342-349 after push_firmware returned: whatever status came
\* back, the task URL is built from task_id and track_update_status is
\* called.  The frame of push_firmware is gone.
MainTrack ==
  /\ pc = "main_after_push"
  /\ pc' = "track_first"
  /\ multipart_uri' = FALSE
  /\ firmware_file' = "unopened"
  /\ members' = 0
  /\ selection' = NoLine
  /\ multipart_targets' = <<>>
  /\ prepared' = "none"
  /\ upload_pbar' = "none"
  /\ sent' = "none"
  /\ send_result' = <<>>
  /\ notice' = "none"
  /\ probe' = <<>>
  /\ inventory_code' = <<>>
  /\ file_size' = 0
  /\ request' = <<>>
  /\ upload_total' = 0
  /\ upload_n' = 0
  /\ body_read' = 0
  /\ file_bytes' = 0
  /\ serviceGets' = 0
  /\ UNCHANGED <<mainVars, trackVars, thrVars>>

\* main returns after track_update_status: the process exits and takes the
\* daemon thread with it.
MainExit ==
  /\ pc = "main_done"
  /\ pc' = "exited"
  /\ thr' = IF thr \in {"check", "sleeping"} THEN "killed" ELSE thr
  /\ UNCHANGED <<mainVars, pushVars, uploadVars, trackVars, lateRefresh>>

\* --------------------------------------------------------- push_firmware
\* What push_firmware hands to main on line 340.
PushReturn(st, id, msg) ==
  /\ pc' = "main_after_push"
  /\ status' = st
  /\ task_id' = id
  /\ notice' = msg
  /\ UNCHANGED <<args, raised>>

\* Mutant of ProbeFailed: the status code is not looked at.
ProbeFailedOnNone(kind, code) == kind = "none"

\* Line 111: the test that ends push_firmware after the probe.
ProbeFailed(kind, code) == kind = "none" \/ code # 200

\* Lines 110-114: the capability probe.
PushProbe ==
  /\ pc = "push_probe"
  /\ serviceGets' = serviceGets + 1
  /\ \E kind \in ResponseKinds, code \in StatusCodes, mp \in BOOLEAN :
       /\ probe' = <<[kind |-> kind, code |-> code]>>
       /\ IF ProbeFailed(kind, code)
         THEN /\ PushReturn("Failure", <<>>, "none")
              /\ UNCHANGED <<multipart_uri, thrVars>>
         ELSE IF kind = "obj"
           THEN /\ pc' = "push_open"
                /\ multipart_uri' = mp
                /\ UNCHANGED <<mainVars, notice, thrVars>>
           ELSE /\ Crash(IF kind = "null" THEN "AttributeError"
                                           ELSE "JSONDecodeError")
                /\ UNCHANGED <<args, status, task_id, multipart_uri, notice>>
  /\ UNCHANGED <<firmware_file, members, selection, multipart_targets,
                 prepared, upload_pbar, sent, send_result, inventory_code,
                 file_size, request, upload_total, upload_n, body_read,
                 file_bytes, trackVars>>

\* Lines 115-120: os.stat and open of the firmware file.
PushOpen ==
  /\ pc = "push_open"
  /\ \E readable \in BOOLEAN, size \in 0..MaxFileSize :
       IF readable
         THEN /\ file_bytes' = size
              /\ file_size' = size
              /\ firmware_file' = "open"
              /\ pc' = IF multipart_uri THEN "push_inventory" ELSE "push_send"
              /\ UNCHANGED <<raised, thrVars>>
         ELSE /\ Crash("OSError")
              /\ UNCHANGED <<firmware_file, file_bytes, file_size>>
  /\ UNCHANGED <<args, status, task_id, multipart_uri, members, selection,
                 multipart_targets, prepared, upload_pbar, sent, send_result,
                 notice, serviceGets, probe, inventory_code, request,
                 upload_total, upload_n, body_read, trackVars>>

\* Lines 124-133: the firmware inventory is fetched; response.status_code is
\* read without a None check.
PushInventory ==
  /\ pc = "push_inventory"
  /\ serviceGets' = serviceGets + 1
  /\ \E kind \in ResponseKinds, code \in StatusCodes, n \in 0..MaxMembers :
       IF kind = "none"
         THEN /\ Crash("AttributeError")
              /\ UNCHANGED <<members, inventory_code>>
         ELSE /\ inventory_code' = <<code>>
              /\ IF code # 200
                   THEN /\ pc' = "push_send"
                        /\ UNCHANGED <<members, raised, thrVars>>
                   ELSE IF kind = "obj"
                     THEN /\ pc' = "select"
                          /\ members' = n
                          /\ UNCHANGED <<raised, thrVars>>
                     ELSE /\ Crash(IF kind = "null" THEN "AttributeError"
                                                     ELSE "JSONDecodeError")
                          /\ UNCHANGED members
  /\ UNCHANGED <<args, status, task_id, multipart_uri, firmware_file,
                 selection, multipart_targets, prepared, upload_pbar, sent,
                 send_result, notice, probe, file_size, request, upload_total,
                 upload_n, body_read, file_bytes, trackVars>>


\* ----------------------------------------------- select_multipart_target
\* members[k] of a Python list of n entries: k counts from the end when it is
\* negative, and IndexError is raised outside -n..n-1.
IndexInRange(k, n) == (0 - n) <= k /\ k <= n - 1

\* Mutant of IndexPosition: the index is not shifted to count from zero.
IndexPositionFromOne(k, n) == IF k >= 0 THEN k + 2 ELSE n + k + 1

\* The 1-based place of members[k].
IndexPosition(k, n) == IF k >= 0 THEN k + 1 ELSE n + k + 1

\* Lines 59-64, the for loop over the tokens of one line: a token in range
\* appends its member, IndexError clears the list and the loop goes on with
\* the next token, and int() of a token that is no number raises ValueError,
\* which nothing catches.
RECURSIVE AppendTokens(_, _, _)
AppendTokens(targets, tokens, n) ==
  IF tokens = <<>>
    THEN [targets |-> targets, error |-> FALSE]
    ELSE LET token == Head(tokens) IN
      IF ~token.num
        THEN [targets |-> targets, error |-> TRUE]
        ELSE AppendTokens(
               IF IndexInRange(token.val - 1, n)
                 THEN Append(targets,
                             MemberId(IndexPosition(token.val - 1, n)))
                 ELSE <<>>,
               Tail(tokens), n)

\* The bytes of the firmware file, one entry for each byte.
FileContent(size) == [i \in 1..size |-> "byte"]

\* Line 139: json.dumps({"Targets": multipart_targets}).
TargetsJson(targets) == <<"{", "Targets", "[">> \o targets \o <<"]", "}">>

\* Lines 136-150: the body that prepare() encodes from the files dictionary:
\* each part is a boundary line, its headers and its content, and a closing
\* boundary ends the body.
EncodeMultipart(targets, size) ==
  <<"boundary", "UpdateParameters", "application/json">>
    \o TargetsJson(targets)
    \o <<"boundary", "UpdateFile", "application/octet-stream">>
    \o FileContent(size)
    \o <<"closing boundary">>

\* The Content-Length header that prepare() computes for a body.
ContentLength(body) == Len(body)

\* Mutant of UsesMultipart: a single target is not enough.
UsesMultipartFromTwo(targets) == Len(targets) > 1

\* Line 135: the test that chooses the multipart request.
UsesMultipart(targets) == Len(targets) > 0

\* Lines 144-150: the multipart request.
MultipartRequest(targets, size) ==
  [url |-> "multipart_uri", targets |-> targets,
   body |-> EncodeMultipart(targets, size)]

\* Lines 163-166: the request of the default method.
SimpleRequest(size) ==
  [url |-> "update_service", targets |-> <<>>, body |-> FileContent(size)]

\* Mutant of MultipartFileSize: file_size stays the size of the file.
RawFileSize(req, size) == size

\* Line 151: file_size becomes the Content-Length of the prepared request.
MultipartFileSize(req, size) == ContentLength(req.body)

\* Lines 135-153: what push_firmware does with the list that
\* select_multipart_target returned.
AfterSelect(targets) ==
  IF UsesMultipart(targets)
    THEN LET req == MultipartRequest(targets, file_bytes) IN
         /\ prepared' = "multipart"
         /\ request' = <<req>>
         /\ file_size' = MultipartFileSize(req, file_size)
    ELSE /\ prepared' = "none"
         /\ UNCHANGED <<request, file_size>>

\* Lines 50-73: one round of the prompt, from input() to the break or to the
\* next prompt; on return push_firmware goes on at line 135.
SelectRound ==
  /\ pc = "select"
  /\ \E line \in Lines :
       /\ selection' = line
       /\ IF IsZeroLine(line)
            THEN /\ pc' = "push_send"
                 /\ AfterSelect(multipart_targets)
                 /\ UNCHANGED <<multipart_targets, raised, thrVars>>
            ELSE LET r == AppendTokens(multipart_targets, line.tokens, members)
                 IN IF r.error
                      THEN /\ Crash("ValueError")
                           /\ multipart_targets' = r.targets
                           /\ UNCHANGED <<prepared, request, file_size>>
                      ELSE /\ multipart_targets' = r.targets
                           /\ IF Len(r.targets) # 0
                                THEN /\ pc' = "push_send"
                                     /\ AfterSelect(r.targets)
                                ELSE /\ pc' = "select"
                                     /\ UNCHANGED <<prepared, request,
                                                    file_size>>
                           /\ UNCHANGED <<raised, thrVars>>
  /\ UNCHANGED <<args, status, task_id, multipart_uri, firmware_file, members,
                 upload_pbar, sent, send_result, notice, serviceGets, probe,
                 inventory_code, upload_total, upload_n, body_read,
                 file_bytes, trackVars>>

\* What Session.send and the decoding of its answer can come to: the
\* transport raises, the body is not JSON or is null (both raise inside the
\* try block), or the body is an object whose Id is absent or a string.
SendResults == [kind : {"exception", "notjson", "null"}, Id : {<<>>}]
                 \cup [kind : {"obj"}, Id : Opt(TaskIds)]

\* Lines 155-169: the progress bar is created with total=file_size, and the
\* body of the request is wrapped so that each read reports to the bar; the
\* request of the default method is made here.
PushWith ==
  /\ pc = "push_send"
  /\ pc' = "push_post"
  /\ upload_pbar' = "active"
  /\ upload_total' = file_size
  /\ upload_n' = 0
  /\ body_read' = 0
  /\ request' = IF prepared = "none"
                  THEN <<SimpleRequest(file_bytes)>> ELSE request
  /\ UNCHANGED <<mainVars, multipart_uri, firmware_file, members, selection,
                 multipart_targets, prepared, sent, send_result, notice,
                 serviceGets, probe, inventory_code, file_size, file_bytes,
                 trackVars, thrVars>>

\* Line 173, inside Session.send: the transport reads the next block of the
\* body through CallbackIOWrapper, which hands the block's length to
\* pbar.update.
PushRead ==
  /\ pc = "push_post"
  /\ body_read < Len(request[1].body)
  /\ LET block == Min(ReadChunk, Len(request[1].body) - body_read) IN
       /\ body_read' = body_read + block
       /\ upload_n' = upload_n + block
  /\ UNCHANGED <<pc, mainVars, pushVars, probe, inventory_code, file_size,
                 request, upload_total, file_bytes, trackVars, thrVars>>

\* Lines 171-189: the outcome of the POST. Session.send can raise at any
\* moment; an answer is read after the body has been handed over in full.
PushSend ==
  /\ pc = "push_post"
  /\ sent' = IF prepared = "multipart" THEN "multipart" ELSE "simple"
  /\ \E r \in SendResults :
       /\ r.kind # "exception" => body_read = Len(request[1].body)
       /\ send_result' = <<r>>
       /\ IF r.kind # "obj"
            THEN \* line 177: return inside the with block
                 /\ upload_pbar' = "closed"
                 /\ UNCHANGED firmware_file
                 /\ PushReturn("Failure", <<>>, "exception")
            ELSE \* lines 179-189
                 /\ upload_pbar' = "closed"
                 /\ firmware_file' = "closed"
                 /\ IF r.Id = <<>>
                      THEN PushReturn("Failure", <<>>, "no_id")
                      ELSE PushReturn("Success", r.Id, "finished")
  /\ UNCHANGED <<multipart_uri, members, selection, multipart_targets,
                 prepared, serviceGets, uploadVars, trackVars, thrVars>>


\* --------------------------------------------------- track_update_status
CountGet(n) == Min(n + 1, GetsCap)

\* timedelta.seconds: the seconds of the difference within its day.
Seconds(delta) == delta % SecondsPerDay

\* Mutant of TimedOut: the elapsed time is compared with the poll interval.
TimedOutAfterOnePoll(delta) == Seconds(delta) > PollSleep

\* Line 250.
TimedOut(delta) == Seconds(delta) > MaxDuration

\* Mutant of IsUpdateTask: either condition is enough ("and" for "or" on
\* lines 206-207).
IsUpdateTaskEither(p) ==
  \/ p.HttpOperation = <<"POST">>
  \/ MentionsUpdateService(p.TargetUri)

\* Lines 205-208.
IsUpdateTask(p) ==
  /\ p.HttpOperation = <<"POST">>
  /\ MentionsUpdateService(p.TargetUri)

\* Mutant of EntersLoop: TaskStatus is not looked at.
EntersLoopWhenRunning(state, st) == state = "Running"

\* Lines 217 and 231: the polling loop is entered from Running and OK.
EntersLoop(state, st) == state = "Running" /\ st = "OK"

\* Mutant of NextPercent: a snapshot without PercentComplete resets the bar.
NextPercentOrZero(n, percent) ==
  IF percent # <<>> THEN percent[1] ELSE 0

\* Line 246.
NextPercent(n, percent) ==
  IF percent # <<>> THEN percent[1] ELSE n

\* Lines 279-281: the Message of every entry whose Severity is Critical.
RECURSIVE CriticalMessages(_)
CriticalMessages(messages) ==
  IF messages = <<>>
    THEN <<>>
    ELSE IF Head(messages).Severity = "Critical"
      THEN <<Head(messages).Message>> \o CriticalMessages(Tail(messages))
      ELSE CriticalMessages(Tail(messages))

\* What track_update_status hands to main on line 349.
TrackReturn(branch, st) ==
  /\ pc' = "main_done"
  /\ outcome' = branch
  /\ status' = st
  /\ UNCHANGED <<args, task_id, raised>>

\* Lines 196-230: the first fetch, the check that this is an update task, and
\* either the start of the progress bar, of the refresh thread and of the
\* one-second settle delay, or the way straight to the classification.
TrackFirst ==
  /\ pc = "track_first"
  /\ taskGets' = CountGet(taskGets)
  /\ \E r \in FirstFetches :
       LET kind == r.kind
           s == r.body
       IN
       /\ response' = kind
       /\ payload' = r.payload
       /\ IF kind \in {"none", "null"}
            THEN \* lines 198 and 202
                 /\ TrackReturn("Aborted", "Failure")
                 /\ UNCHANGED <<task_state, task_status, pbar, elapsed,
                                slept, thrVars>>
            ELSE IF kind = "notjson" \/ r.payload = <<>>
              THEN \* line 200 raises again; line 206 calls None.get
                   /\ Crash(IF kind = "notjson" THEN "JSONDecodeError"
                                                ELSE "AttributeError")
                   /\ UNCHANGED <<args, status, task_id, outcome, task_state,
                                  task_status, pbar, elapsed, slept>>
              ELSE IF ~IsUpdateTask(r.payload[1])
                THEN /\ TrackReturn("Unsupported", "Unsupported")
                     /\ UNCHANGED <<task_state, task_status, pbar, elapsed,
                                    slept, thrVars>>
                ELSE /\ task_state' = s.TaskState
                     /\ task_status' = s.TaskStatus
                     /\ IF EntersLoop(s.TaskState, s.TaskStatus)
                          THEN /\ pbar' = [state |-> "active", n |-> 0]
                               /\ thr' = "check"
                               /\ slept' = TRUE
                               /\ elapsed' = SettleSleep
                               /\ pc' = "track_poll"
                               /\ UNCHANGED lateRefresh
                          ELSE /\ pc' = "track_classify"
                               /\ UNCHANGED <<pbar, elapsed, slept, thrVars>>
                     /\ UNCHANGED <<mainVars, outcome>>
  /\ UNCHANGED <<pushVars, uploadVars, end_time, exception, percentage,
                 shown_exception, shown_messages, read_messages>>

\* Lines 231-261: one pass of the while loop, from the GET to the sleep that
\* precedes the next pass or to the statement that leaves the loop.
TrackPoll ==
  /\ pc = "track_poll"
  /\ taskGets' = CountGet(taskGets)
  /\ \E r \in PollFetches :
       LET delta == elapsed
           kind == r.kind
           s == r.body
       IN
       /\ response' = kind
       /\ IF kind = "none"
            THEN \* line 234: return from inside the with block
                 /\ TrackReturn("Aborted", "Failure")
                 /\ pbar' = [pbar EXCEPT !.state = "closed"]
                 /\ elapsed' = 0
                 /\ UNCHANGED <<task_state, task_status, end_time, exception,
                                percentage, slept, thrVars>>
            ELSE IF kind = "notjson"
              THEN \* line 236 raises again
                   /\ Crash("JSONDecodeError")
                   /\ pbar' = [pbar EXCEPT !.state = "closed"]
                   /\ elapsed' = 0
                   /\ UNCHANGED <<args, status, task_id, outcome, task_state,
                                  task_status, end_time, exception,
                                  percentage, slept>>
              ELSE IF kind = "null"
                THEN \* lines 238-239, then 261
                     /\ exception' = "json"
                     /\ pbar' = [pbar EXCEPT !.state = "closed"]
                     /\ elapsed' = 0
                     /\ pc' = "track_join"
                     /\ UNCHANGED <<mainVars, outcome, task_state,
                                    task_status, end_time, percentage, slept,
                                    thrVars>>
                ELSE \* lines 241-259
                     /\ percentage' = s.PercentComplete
                     /\ task_state' = s.TaskState
                     /\ task_status' = s.TaskStatus
                     /\ end_time' = s.EndTime
                     /\ IF s.EndTime = <<>> /\ ~TimedOut(delta)
                          THEN \* line 257
                               /\ pbar' = [pbar EXCEPT
                                    !.n = NextPercent(pbar.n, s.PercentComplete)]
                               /\ elapsed' = delta + PollSleep
                               /\ pc' = "track_poll"
                               /\ UNCHANGED exception
                          ELSE \* lines 253-256 or 259, then 261
                               /\ pbar' = [state |-> "closed",
                                    n |-> NextPercent(pbar.n, s.PercentComplete)]
                               /\ elapsed' = 0
                               /\ pc' = "track_join"
                               /\ exception' = IF s.EndTime = <<>>
                                                 THEN "timeout" ELSE exception
                     /\ UNCHANGED <<mainVars, outcome, slept, thrVars>>
  /\ UNCHANGED <<pushVars, uploadVars, payload, shown_exception,
                 shown_messages, read_messages>>

\* Line 262: t.join() returns once refresh_pbar has returned.
TrackJoin ==
  /\ pc = "track_join"
  /\ thr = "done"
  /\ pc' = "track_classify"
  /\ UNCHANGED <<mainVars, pushVars, uploadVars, trackVars, thrVars>>

\* Lines 264-283.  The body of the stored response is decoded again on line
\* 276, which is where its Messages member is read.
TrackClassify ==
  /\ pc = "track_classify"
  /\ IF task_state = "Completed" /\ task_status = "OK"
       THEN /\ TrackReturn("Completed", "Success")
            /\ UNCHANGED <<shown_exception, shown_messages, read_messages,
                           thrVars>>
       ELSE IF task_state = "Running"
         THEN /\ TrackReturn("Indeterminate", "Failure")
              /\ shown_exception' = exception
              /\ UNCHANGED <<shown_messages, read_messages, thrVars>>
         ELSE IF response = "null"
           THEN /\ Crash("AttributeError")
                /\ UNCHANGED <<args, status, task_id, outcome,
                               shown_exception, shown_messages, read_messages>>
           ELSE \E messages \in Opt(MessageLists) :
                  /\ read_messages' = messages
                  /\ IF messages = <<>>
                       THEN \* len(None)
                            /\ Crash("TypeError")
                            /\ UNCHANGED <<args, status, task_id, outcome,
                                           shown_exception, shown_messages>>
                       ELSE /\ TrackReturn("Failed", "Failure")
                            /\ shown_messages' = CriticalMessages(messages[1])
                            /\ UNCHANGED <<shown_exception, thrVars>>
  /\ UNCHANGED <<pushVars, uploadVars, payload, task_state, task_status,
                 end_time, exception, response, percentage, pbar, elapsed,
                 taskGets, slept>>

\* ----------------------------------------------------------- refresh_pbar
Alive == pc \notin {"exited", "crashed"}

\* Mutant of KeepsRefreshing: the loop test never fails.
KeepsRefreshingEver(bar) == TRUE

\* Line 36: pbar.disable == False; tqdm sets disable when the bar is closed.
KeepsRefreshing(bar) == bar.state = "active"

\* Line 36: the loop test.
RefreshCheck ==
  /\ Alive
  /\ thr = "check"
  /\ thr' = IF KeepsRefreshing(pbar) THEN "sleeping" ELSE "done"
  /\ UNCHANGED <<pc, mainVars, pushVars, uploadVars, trackVars, lateRefresh>>

\* Lines 37-38: the sleep ends and the bar is refreshed.
RefreshWake ==
  /\ Alive
  /\ thr = "sleeping"
  /\ thr' = "check"
  /\ lateRefresh' = (lateRefresh \/ pc = "main_done")
  /\ UNCHANGED <<pc, mainVars, pushVars, uploadVars, trackVars>>

Next ==
  \/ MainStart \/ MainTrack \/ MainExit
  \/ PushProbe \/ PushOpen \/ PushInventory \/ SelectRound
  \/ PushWith \/ PushRead \/ PushSend
  \/ TrackFirst \/ TrackPoll \/ TrackJoin \/ TrackClassify
  \/ RefreshCheck \/ RefreshWake

Spec == Init /\ [][Next]_vars

\* The main thread and the refresh thread are both scheduled while the
\* process lives; the operator and the server are not obliged to anything.
FairSpec ==
  /\ Spec
  /\ WF_vars(TrackPoll) /\ WF_vars(TrackJoin) /\ WF_vars(TrackClassify)
  /\ WF_vars(RefreshCheck) /\ WF_vars(RefreshWake)


\* ================================================================ claims
Tracking == pc \in {"track_first", "track_poll", "track_join", "track_classify"}
Returned == pc \in {"main_done", "exited"}
Ended == pc \in {"main_done", "exited", "crashed"}
NonEmptyId(id) == id # <<>> /\ id # <<"">>

\* C1: in upload mode track_update_status is called, and a GET on the task URL
\* is issued, only after push_firmware returned Success with a non-empty task
\* id.  main calls it whatever push_firmware returned.
C1_TrackingNeedsConfirmedTaskId ==
  (args.file_path /\ Tracking) => (status = "Success" /\ NonEmptyId(task_id))

\* C2: the polling loop terminates.  It goes on for at most one poll interval
\* past MaxDuration seconds; it is left on a successful snapshot without
\* EndTime only with the timeout recorded and the threshold exceeded; once
\* left it is not entered and no task GET is issued again; and it is always
\* left eventually.
C2_PollingLoopTerminates ==
  /\ [](pc = "track_poll" => elapsed <= MaxDuration + PollSleep)
  /\ [][(pc = "track_poll" /\ pc' = "track_join"
           /\ response' = "obj" /\ end_time' = <<>>)
          => (elapsed > MaxDuration /\ exception' = "timeout")]_vars
  /\ [][(slept /\ pc # "track_poll")
          => (pc' # "track_poll" /\ taskGets' = taskGets)]_vars
  /\ (pc = "track_poll") ~> (pc # "track_poll")

\* C2 witness: the loop has been left on the timeout while the server kept
\* answering Running without EndTime.
C2_Witness ==
  /\ pc = "track_join"
  /\ exception = "timeout"
  /\ task_state = "Running"
  /\ end_time = <<>>

\* C3: once the timeout is recorded, the tracker ends Indeterminate with the
\* timeout shown, whatever the last snapshot's TaskState and TaskStatus.  The
\* code classifies by the last TaskState and shows the timeout only for
\* Running.
C3_TimeoutIsIndeterminate ==
  (exception = "timeout" /\ Returned)
    => (outcome = "Indeterminate" /\ shown_exception = "timeout")

\* C4: a fetch or parse failure inside the polling loop records an exception,
\* leaves the loop and ends in a classified, non-success outcome: it neither
\* raises nor returns before the classification.
C4_PollFailureIsClassified ==
  (slept /\ response # "obj" /\ pc # "track_poll")
    => /\ exception = "json"
       /\ pc # "crashed"
       /\ Returned => outcome \in {"Indeterminate", "Failed"}

\* C5: when track_update_status has returned after starting the refresh
\* thread, the progress bar is closed, the thread has ended, and it has not
\* refreshed since the return.
C5_RefreshThreadJoinedOnReturn ==
  (pc = "main_done" /\ thr # "notstarted")
    => (pbar.state = "closed" /\ thr = "done" /\ ~lateRefresh)


\* C6: push_firmware never finishes with the firmware file it opened still
\* open, nor with the upload progress bar still running.
C6_FileClosedWhenPushFinishes ==
  (pc \in {"main_after_push", "crashed"} /\ firmware_file # "unopened")
    => (firmware_file = "closed" /\ upload_pbar # "active")

\* C7: push_firmware returns Success only with a non-empty task id; an answer
\* whose Id is absent or empty gives (Failure, None) with the notice kept for
\* a missing id, which a transport exception never gets.
C7_SuccessOnlyWithNonEmptyId ==
  pc = "main_after_push"
    => /\ status = "Success" => NonEmptyId(task_id)
       /\ (send_result # <<>> /\ send_result[1].kind = "obj"
             /\ ~NonEmptyId(send_result[1].Id))
            => (status = "Failure" /\ task_id = <<>> /\ notice = "no_id")
       /\ (send_result # <<>> /\ send_result[1].kind = "exception")
            => (status = "Failure" /\ notice # "no_id")

CriticalTexts(messages) ==
  LET critical == SelectSeq(messages, LAMBDA m : m.Severity = "Critical")
  IN [i \in 1..Len(critical) |-> critical[i].Message]

\* C9: for an update task the tracker ends in the outcome its last snapshot
\* stands for: Completed for Completed and OK, else Indeterminate for
\* Running, else Failed with exactly the Critical messages shown, in order.
C9_OutcomeFollowsLastSnapshot ==
  (Ended /\ task_state # "unset")
    => /\ pc # "crashed"
       /\ outcome = IF task_state = "Completed" /\ task_status = "OK"
                      THEN "Completed"
                      ELSE IF task_state = "Running" THEN "Indeterminate"
                                                     ELSE "Failed"
       /\ outcome = "Failed"
            => (/\ read_messages # <<>>
                /\ shown_messages = CriticalTexts(read_messages[1]))

\* A token that members[int(index) - 1] rejects with IndexError.
RejectedToken(token) ==
  token.num /\ (token.val > members \/ token.val < 1 - members)

\* C10: a line holding a rejected index, other than the line "0" that opts
\* out, leaves the selection empty and the prompt repeats: no list is returned
\* from such a line.
C10_InvalidTokenDiscardsLine ==
  (/\ pc \in {"select", "push_send"}
   /\ ~IsZeroLine(selection)
   /\ \E i \in 1..Len(selection.tokens) : RejectedToken(selection.tokens[i]))
    => (pc = "select" /\ multipart_targets = <<>>)

\* A token that is no number, or no 1-based index into the offered members.
InvalidToken(token) ==
  ~token.num \/ token.val < 1 \/ token.val > members

\* C11: a token that is no number, or no index in 1..len(members), is treated
\* as invalid without an exception and without selecting a member: after a
\* line, other than the opt-out "0", that ends in such a token the list is
\* empty and the prompt repeats.
C11_InvalidTokenIsRejected ==
  (/\ pc \in {"select", "push_send", "crashed"}
   /\ selection.tokens # <<>>
   /\ ~(selection.exact /\ selection.tokens = <<[num |-> TRUE, val |-> 0]>>)
   /\ InvalidToken(selection.tokens[Len(selection.tokens)]))
    => (pc = "select" /\ multipart_targets = <<>> /\ raised = "none")

\* A line made only of 1-based indices into the offered members.
ValidLine(line) ==
  /\ line.tokens # <<>>
  /\ \A i \in 1..Len(line.tokens) :
       line.tokens[i].num /\ line.tokens[i].val \in 1..members

\* The identifiers of the offered members.
OfferedIds == {MemberId(i) : i \in 1..members}

\* C12: a line made only of valid 1-based indices returns exactly the
\* identifiers members[i-1] of the entered indices, in the order entered, and
\* each of them is an offered member's identifier.
C12_ValidLineReturnsItsMembers ==
  (pc \in {"select", "push_send", "crashed"} /\ ValidLine(selection))
    => (/\ pc = "push_send"
        /\ multipart_targets =
             [i \in 1..Len(selection.tokens) |->
                MemberId(selection.tokens[i].val)]
        /\ \A i \in 1..Len(multipart_targets) :
             multipart_targets[i] \in OfferedIds)

\* C12 witness: the line "2 1" has returned the second member, then the first.
C12_Witness ==
  /\ pc = "push_send"
  /\ ValidLine(selection)
  /\ Len(selection.tokens) = 2
  /\ selection.tokens[1].val = 2
  /\ selection.tokens[2].val = 1

\* The line "0".
ZeroLine == [tokens |-> <<[num |-> TRUE, val |-> 0]>>, exact |-> TRUE]

\* select_multipart_target has returned to push_firmware.
SelectReturned ==
  /\ inventory_code = <<200>>
  /\ pc \in {"push_send", "push_post", "main_after_push"}

C14_MultipartExactlyWhenSelected ==
  (pc = "main_after_push" /\ sent # "none")
    => (/\ (sent = "multipart")
             <=> (/\ multipart_uri
                  /\ inventory_code = <<200>>
                  /\ multipart_targets # <<>>)
        /\ request # <<>>
        /\ sent = "multipart"
             => (/\ request[1].url = "multipart_uri"
                 /\ request[1].targets = multipart_targets
                 /\ request[1].body =
                      EncodeMultipart(multipart_targets, file_bytes))
        /\ sent = "simple"
             => (/\ request[1].url = "update_service"
                 /\ request[1].body = FileContent(file_bytes))
        /\ (request[1].targets = <<>>) <=> (sent = "simple"))

\* C14 witness: a multipart upload with two targets has been sent.
C14_Witness ==
  /\ pc = "main_after_push"
  /\ sent = "multipart"
  /\ Len(multipart_targets) = 2

\* C15: when the probe of the update service fails or answers another status
\* than 200, push_firmware returns (Failure, None) with the file unopened, the
\* operator not prompted and nothing posted.
C15_FailedProbeStopsPush ==
  (probe # <<>> /\ (probe[1].kind = "none" \/ probe[1].code # 200))
    => (/\ pc = "main_after_push"
        /\ status = "Failure"
        /\ task_id = <<>>
        /\ firmware_file = "unopened"
        /\ selection = NoLine
        /\ upload_pbar = "none"
        /\ sent = "none"
        /\ request = <<>>
        /\ serviceGets = 1)

\* C15 witness: the probe was answered 404 and push_firmware has returned.
C15_Witness ==
  /\ pc = "main_after_push"
  /\ probe # <<>>
  /\ probe[1].kind = "obj"
  /\ probe[1].code = 404

\* C16: when the firmware file cannot be opened, no HTTP request has been
\* issued at the point where the failure is raised: neither the capability
\* GET nor the upload POST.
C16_FileFailureBeforeAnyRequest ==
  (pc = "crashed" /\ raised = "OSError")
    => (serviceGets = 0 /\ sent = "none")

\* The branch of lines 264-283 that fits a TaskState and TaskStatus.
OutcomeOf(state, st) ==
  IF state = "Completed" /\ st = "OK"
    THEN "Completed"
    ELSE IF state = "Running" THEN "Indeterminate" ELSE "Failed"

\* The first snapshot of a supported task has been read and no later one.
FirstSnapshotOnly == task_state # "unset" /\ taskGets = 1

\* C17: the polling loop is entered exactly when the first snapshot of a
\* supported task is Running and OK; after any other first snapshot there is
\* one fetch, no refresh thread and no progress bar, and the outcome is
\* classified from that snapshot.
C17_LoopEnteredOnlyFromRunningOk ==
  /\ FirstSnapshotOnly
       => (slept <=> (task_state = "Running" /\ task_status = "OK"))
  /\ (FirstSnapshotOnly /\ slept)
       => (/\ pc = "track_poll"
           /\ thr \in {"check", "sleeping"}
           /\ pbar.state = "active")
  /\ (task_state # "unset" /\ ~slept)
       => (/\ taskGets = 1
           /\ thr = "notstarted"
           /\ pbar.state = "none"
           /\ pc \in {"track_classify", "main_done", "exited", "crashed"}
           /\ Returned => outcome = OutcomeOf(task_state, task_status))

\* C17 witness: a task that is still Pending has been classified after one
\* fetch.
C17_Witness ==
  /\ Returned
  /\ ~slept
  /\ task_state = "Pending"
  /\ taskGets = 1
  /\ outcome = "Failed"

\* A step of the polling loop: the pass either sleeps or leaves the loop.
PollStep == pc = "track_poll" /\ (elapsed' # elapsed \/ pc' # "track_poll")

\* C18: a poll sets the displayed percentage to the snapshot's
\* PercentComplete when the snapshot has one and leaves it as it was when the
\* snapshot has none, or when no snapshot was read.
C18_PercentFollowsSnapshot ==
  [][PollStep
       => pbar'.n = IF response' = "obj" /\ percentage' # <<>>
                      THEN percentage'[1] ELSE pbar.n]_vars

\* C18 witness: the bar stands at 30 after a snapshot without PercentComplete.
C18_Witness ==
  /\ pc = "track_poll"
  /\ response = "obj"
  /\ percentage = <<>>
  /\ pbar.n = 30

\* C19: the bar's stop flag is clear while the loop runs, is set by the main
\* thread and never by refresh_pbar, and is never cleared again; once it is
\* set, refresh_pbar starts no further sleep.  The bar of the upload is
\* likewise never active again once closed.
C19_StopFlagIsMonotonic ==
  /\ [](pc = "track_poll" => pbar.state = "active")
  /\ [](pc = "push_post" => upload_pbar = "active")
  /\ [][pbar.state = "closed" => pbar'.state = "closed"]_vars
  /\ [][upload_pbar = "closed" => upload_pbar' # "active"]_vars
  /\ [][(/\ thr \in {"check", "sleeping"}
          /\ thr' \in {"check", "sleeping", "done"}
          /\ thr' # thr)
          => pbar' = pbar]_vars
  /\ [][(pbar.state = "closed" /\ thr = "check") => thr' # "sleeping"]_vars

\* C19 witness: refresh_pbar has returned after the bar was closed.
C19_Witness ==
  /\ pbar.state = "closed"
  /\ thr = "done"

\* C20: the total of the upload bar is the declared length of the body that
\* is sent, the file size for the simple method and the length of the encoded
\* body, which is larger than the file, for the multipart one; the bytes
\* counted never exceed it, and equal it when push_firmware returns Success.
C20_UploadTotalIsBodyLength ==
  /\ upload_pbar # "none"
       => (/\ request # <<>>
           /\ upload_total = Len(request[1].body)
           /\ upload_n <= upload_total
           /\ prepared = "none" => upload_total = file_bytes
           /\ prepared = "multipart" => upload_total > file_bytes)
  /\ (pc = "main_after_push" /\ status = "Success")
       => upload_n = upload_total

\* C20 witness: a multipart upload of a two-byte file has returned Success.
C20_Witness ==
  /\ pc = "main_after_push"
  /\ status = "Success"
  /\ prepared = "multipart"
  /\ file_bytes = 2
  /\ upload_n = upload_total

====
